---- MODULE Spec2Model ----
(***************************************************************************)
(* Model of the Search100 engine (src/src/engine.cpp): the in-memory       *)
(* inverted index of SearchEngine, the three JSON artifacts it persists in *)
(* the working directory, the corpus directory it walks, and the public    *)
(* operations indexCorpusDirectory and search.                             *)
(*                                                                         *)
(* Lines, words and queries are strings; PorterStemmer (src/src/           *)
(* stemming.cpp) is modelled character by character: its tokenizer         *)
(* stemLine, its steps 1a to 5b and the helpers they share.                *)
(*                                                                         *)
(* The graphical program (main of the GUI, src/src/ui_states.cpp,          *)
(* src/src/ui_components.cpp) is modelled frame by frame: the events it    *)
(* polls, the state it draws, and the indexing it runs after the display.  *)
(***************************************************************************)
EXTENDS Integers, Sequences, FiniteSets, TLC

VARIABLES
    corpus,            \* the corpus directory: path -> text (sequence of lines)
    disk,              \* the three artifacts in the working directory
    committed,         \* contents of the artifacts after the last completed save
    documents,         \* SearchEngine::documents
    term_occurrences,  \* SearchEngine::term_occurrences
    term_documents,    \* SearchEngine::term_documents
    doc_id_tracker,    \* SearchEngine::doc_id_tracker
    running,           \* a process holding the engine is alive
    results,           \* the vector returned by the last search
    runs,              \* number of indexCorpusDirectory calls so far
    stemmer_data,      \* PorterStemmer::data of a stemmer used on its own
    line_stems,        \* the vector returned by the last stemLine of that stemmer
    searchbar,         \* the SearchBar of the state the GUI shows
    app_data,          \* AppData: indexes_loaded, indexes_use_data, state_reset
    state,             \* the State object main points to
    frame,             \* where main is in its loop
    last               \* the last operation, its arguments and what it observed

vars == <<corpus, disk, committed, documents, term_occurrences, term_documents,
          doc_id_tracker, running, results, runs,
          stemmer_data, line_stems, searchbar, app_data, state, frame, last>>

engine == <<corpus, disk, committed, documents, term_occurrences, term_documents,
            doc_id_tracker, running, results, runs>>

index == <<documents, term_occurrences, term_documents>>

gui == <<searchbar, app_data, state, frame>>

-----------------------------------------------------------------------------
(* Bounds *)

\* number of indexCorpusDirectory calls in one behaviour
MaxRuns == 3

\* indexing runs of a program that also searches
MaxSearchRuns == 2

-----------------------------------------------------------------------------
(* Generic helpers *)

EmptyMap == <<>>

Put(f, k, v) == [x \in (DOMAIN f) \cup {k} |-> IF x = k THEN v ELSE f[x]]

Get(f, k, default) == IF k \in DOMAIN f THEN f[k] ELSE default

Min(S) == CHOOSE x \in S : \A y \in S : x <= y

RECURSIVE SetToSeq(_)
SetToSeq(S) == IF S = {} THEN <<>> ELSE <<Min(S)>> \o SetToSeq(S \ {Min(S)})

Range(s) == {s[i] : i \in DOMAIN s}

\* the sequences of a sequence, one after the other
RECURSIVE Flatten(_)
Flatten(runs_) == IF runs_ = <<>> THEN <<>> ELSE Head(runs_) \o Flatten(Tail(runs_))

\* all orders in which the elements of S can be enumerated
Orders(S) == {s \in [1..Cardinality(S) -> S] : Range(s) = S}

-----------------------------------------------------------------------------
(* Strings (src/src/utils.cpp). A std::string is a TLA+ string; the position *)
(* of a character is counted from 0 as in the source.                        *)

\* data.at(index)
at(data, idx) == SubSeq(data, idx + 1, idx + 1)

\* data.substr(pos)
substr(data, pos) == SubSeq(data, pos + 1, Len(data))

\* data.insert(pos, str): nothing is taken out of data
insert(data, pos, n, str) ==
    SubSeq(data, 1, pos) \o str \o SubSeq(data, pos + 1, Len(data))

\* data.replace(pos, n, str)
replace(data, pos, n, str) ==
    SubSeq(data, 1, pos) \o str \o SubSeq(data, pos + n + 1, Len(data))

stringEndsWith(data, suffix) ==
    LET diff == Len(data) - Len(suffix)
    IN  IF diff < 0 THEN FALSE ELSE substr(data, diff) = suffix

UPPERCASE == <<"A", "B", "C", "D", "E", "F", "G", "H", "I", "J", "K", "L", "M",
               "N", "O", "P", "Q", "R", "S", "T", "U", "V", "W", "X", "Y", "Z">>

LOWERCASE == <<"a", "b", "c", "d", "e", "f", "g", "h", "i", "j", "k", "l", "m",
               "n", "o", "p", "q", "r", "s", "t", "u", "v", "w", "x", "y", "z">>

\* std::tolower
tolower(c) ==
    IF \E i \in 1..Len(UPPERCASE) : UPPERCASE[i] = c
    THEN LOWERCASE[CHOOSE i \in 1..Len(UPPERCASE) : UPPERCASE[i] = c]
    ELSE c

RECURSIVE stringToLowerFrom(_, _)
stringToLowerFrom(data, i) ==
    IF i >= Len(data) THEN ""
    ELSE tolower(at(data, i)) \o stringToLowerFrom(data, i + 1)

stringToLower(data) == stringToLowerFrom(data, 0)

-----------------------------------------------------------------------------
(* The Porter stemmer (src/src/stemming.cpp). Every helper and step takes   *)
(* PorterStemmer::data and returns what it leaves in it.                    *)

STEP_2_SUFFIXES ==
    << <<"ational", "ate">>, <<"tional", "tion">>, <<"enci", "ence">>,
       <<"anci", "ance">>, <<"izer", "ize">>, <<"abli", "able">>,
       <<"alli", "al">>, <<"entli", "ent">>, <<"eli", "e">>, <<"ousli", "ous">>,
       <<"ization", "ize">>, <<"ation", "ate">>, <<"ator", "ate">>,
       <<"alism", "al">>, <<"iveness", "ive">>, <<"fulness", "ful">>,
       <<"ousness", "ous">>, <<"aliti", "al">>, <<"iviti", "ive">>,
       <<"biliti", "ble">> >>

STEP_3_SUFFIXES ==
    << <<"icate", "ic">>, <<"ative", "">>, <<"alize", "al">>, <<"iciti", "ic">>,
       <<"ical", "ic">>, <<"ful", "">>, <<"ness", "">> >>

STEP_4_SUFFIXES ==
    << <<"al", "">>, <<"ance", "">>, <<"ence", "">>, <<"er", "">>, <<"ic", "">>,
       <<"able", "">>, <<"ible", "">>, <<"ant", "">>, <<"ement", "">>,
       <<"ment", "">>, <<"ent", "">>, <<"ou", "">>, <<"ism", "">>, <<"ate", "">>,
       <<"iti", "">>, <<"ous", "">>, <<"ive", "">>, <<"ize", "">> >>

\* the maps give [start, end) as in the source, rows counted from 0
STEP_2_PENULT_MAP ==
    [a |-> <<0, 2>>, c |-> <<2, 4>>, e |-> <<4, 5>>, l |-> <<5, 10>>,
     o |-> <<10, 13>>, s |-> <<13, 17>>, t |-> <<17, 20>>, u |-> <<20, 21>>]

STEP_3_ULT_MAP ==
    [e |-> <<0, 3>>, i |-> <<3, 4>>, l |-> <<4, 6>>, s |-> <<6, 7>>]

STEP_4_PENULT_MAP ==
    [a |-> <<0, 1>>, c |-> <<1, 3>>, e |-> <<3, 4>>, i |-> <<4, 5>>,
     l |-> <<5, 7>>, n |-> <<7, 11>>, o |-> <<11, 12>>, s |-> <<12, 13>>,
     t |-> <<13, 15>>, u |-> <<15, 16>>, v |-> <<16, 17>>, z |-> <<17, 18>>]

\* What the source leaves undefined, as the builds can resolve it:
\*   res1b, res1c  the value read from the uninitialized res of containsVowel
\*                 in step1b and in step1c, when data has none of a, e, i, o, u;
\*   beyond        the row read past the end of STEP_2_SUFFIXES: the first row
\*                 of the table that follows it, or no string (the read faults).
Undefined == [res1b : BOOLEAN, res1c : BOOLEAN, beyond : {"row", "fault"}]

\* data of a stemmer whose process has faulted
Fault == "SIGSEGV"

RECURSIVE isConsonant(_, _)
isConsonant(data, idx) ==
    LET c == at(data, idx)
    IN  IF c \in {"a", "e", "i", "o", "u"} THEN FALSE
        ELSE IF c = "y" /\ idx # 0 /\ isConsonant(data, idx - 1) THEN FALSE
        ELSE TRUE

\* the last loop of getm
RECURSIVE countVC(_, _, _, _, _)
countVC(data, i, end, v, m) ==
    IF i > end THEN m
    ELSE IF isConsonant(data, i) /\ v THEN countVC(data, i + 1, end, FALSE, m + 1)
    ELSE IF ~isConsonant(data, i) /\ ~v THEN countVC(data, i + 1, end, TRUE, m)
    ELSE countVC(data, i + 1, end, v, m)

getm(data, suffix_length) ==
    LET len == Len(data) - suffix_length
        cut == replace(data, len, suffix_length, "")
        vowels == {i \in 0..(len - 1) : ~isConsonant(cut, i)}
        start == IF vowels = {} THEN -1 ELSE Min(vowels)
        consonants == {i \in (start + 1)..(len - 1) : isConsonant(cut, i)}
        end == IF consonants = {} THEN -1
               ELSE CHOOSE i \in consonants : \A j \in consonants : j <= i
    IN  [data |-> data,
         res |-> IF start = -1 THEN 0
                 ELSE IF end < start \/ end = -1 THEN 0
                 ELSE countVC(cut, start, end, TRUE, 0)]

\* data.find(c), -1 for npos
RECURSIVE find(_, _, _)
find(data, c, i) ==
    IF i >= Len(data) THEN -1
    ELSE IF at(data, i) = c THEN i ELSE find(data, c, i + 1)

\* res is the value the uninitialized variable reads as
containsVowel(data, suffix_length, res) ==
    LET cut == replace(data, Len(data) - suffix_length, suffix_length, "")
        found == \E c \in {"a", "e", "i", "o", "u"} : find(cut, c, 0) # -1
        y_index == find(cut, "y", 0)
    IN  [data |-> data,
         res |-> IF found \/ res THEN TRUE
                 ELSE IF y_index = -1 \/ y_index = 0 THEN FALSE
                 ELSE isConsonant(cut, y_index - 1)]

doubleConsonantSuffix(data, suffix_length) ==
    LET len == Len(data) - suffix_length
        cut == replace(data, len, suffix_length, "")
    IN  [data |-> data,
         res |-> IF len < 2 THEN FALSE
                 ELSE IF isConsonant(cut, len - 1)
                 THEN at(cut, len - 2) = at(cut, len - 1)
                 ELSE FALSE]

\* the return for len < 3 comes after data.replace and before data = old_data
endsCVC(data, suffix_length) ==
    LET len == Len(data) - suffix_length
        cut == replace(data, len, suffix_length, "")
        c2 == at(cut, len - 1)
    IN  IF len < 3 THEN [data |-> cut, res |-> FALSE]
        ELSE [data |-> data,
              res |-> IF /\ isConsonant(cut, len - 3)
                         /\ ~isConsonant(cut, len - 2)
                         /\ isConsonant(cut, len - 1)
                      THEN c2 \notin {"w", "x", "y"}
                      ELSE FALSE]

\* data.pop_back()
pop_back(data) == SubSeq(data, 1, Len(data) - 1)

step1a(data) ==
    IF stringEndsWith(data, "sses") THEN replace(data, Len(data) - 4, 4, "ss")
    ELSE IF stringEndsWith(data, "ies") THEN replace(data, Len(data) - 3, 3, "i")
    ELSE IF stringEndsWith(data, "s") /\ ~stringEndsWith(data, "ss") THEN pop_back(data)
    ELSE data

\* the part of step1b under if (followup)
step1bFollowup(data) ==
    IF \/ stringEndsWith(data, "at") \/ stringEndsWith(data, "bl")
       \/ stringEndsWith(data, "iz")
    THEN data \o "e"
    ELSE IF doubleConsonantSuffix(data, 0).res
    THEN IF ~(\/ stringEndsWith(data, "l") \/ stringEndsWith(data, "s")
              \/ stringEndsWith(data, "z"))
         THEN pop_back(data) ELSE data
    ELSE LET cvc == endsCVC(data, 0)
         IN  IF cvc.res /\ getm(cvc.data, 0).res = 1 THEN cvc.data \o "e"
             ELSE cvc.data

step1b(data, res) ==
    IF stringEndsWith(data, "eed")
    THEN IF getm(data, 3).res > 0 THEN replace(data, Len(data) - 3, 3, "ee") ELSE data
    ELSE IF stringEndsWith(data, "ing")
    THEN IF containsVowel(data, 3, res).res
         THEN step1bFollowup(replace(data, Len(data) - 3, 3, "")) ELSE data
    ELSE IF stringEndsWith(data, "ed")
    THEN IF containsVowel(data, 2, res).res
         THEN step1bFollowup(replace(data, Len(data) - 2, 2, "")) ELSE data
    ELSE data

step1c(data, res) ==
    IF stringEndsWith(data, "y") /\ containsVowel(data, 1, res).res
    THEN replace(data, Len(data) - 1, 1, "i")
    ELSE data

\* rows i .. end-1 of arr, counted from 0; past is what arr[i] is for a row
\* that is not in the table
RECURSIVE processSuffixArray(_, _, _, _, _, _)
processSuffixArray(data, arr, i, end, m, past) ==
    IF i >= end THEN data
    ELSE IF i >= Len(arr) /\ past = Fault THEN Fault
    ELSE LET row == IF i >= Len(arr) THEN past ELSE arr[i + 1]
             s1 == row[1]
             s2 == row[2]
         IN  IF stringEndsWith(data, s1) /\ getm(data, Len(s1)).res > m
             THEN replace(data, Len(data) - Len(s1), Len(s1), s2)
             ELSE processSuffixArray(data, arr, i + 1, end, m, past)

getSuffixBounds(hash_map, c) ==
    IF c \notin DOMAIN hash_map THEN <<0, 0>> ELSE hash_map[c]

\* beyond: what the read past the end of STEP_2_SUFFIXES finds
step2(data, beyond) ==
    LET len == Len(data)
        bounds == getSuffixBounds(STEP_2_PENULT_MAP, at(data, len - 2))
    IN  IF len < 2 THEN data
        ELSE processSuffixArray(data, STEP_2_SUFFIXES, bounds[1], bounds[2], 0,
                                IF beyond = "row" THEN STEP_3_SUFFIXES[1] ELSE Fault)

step3(data) ==
    LET len == Len(data)
        bounds == getSuffixBounds(STEP_3_ULT_MAP, at(data, len - 1))
    IN  IF len < 1 THEN data
        ELSE processSuffixArray(data, STEP_3_SUFFIXES, bounds[1], bounds[2], 0, Fault)

step4(data) ==
    LET len == Len(data)
        cut == replace(data, len - 3, 3, "")
        bounds == getSuffixBounds(STEP_4_PENULT_MAP, at(data, len - 2))
    IN  IF len < 2 THEN data
        ELSE IF stringEndsWith(data, "ion")
        THEN IF /\ stringEndsWith(cut, "s") \/ stringEndsWith(cut, "t")
                /\ getm(cut, 0).res > 1
             THEN cut ELSE data
        ELSE processSuffixArray(data, STEP_4_SUFFIXES, bounds[1], bounds[2], 1, Fault)

\* endsCVC is called only when m is 1, and what it leaves in data stays
step5a(data) ==
    LET m == getm(data, 1).res
        cvc == endsCVC(data, 1)
    IN  IF ~stringEndsWith(data, "e") THEN data
        ELSE IF m > 1 THEN replace(data, Len(data) - 1, 1, "")
        ELSE IF m = 1
        THEN IF ~cvc.res THEN replace(cvc.data, Len(cvc.data) - 1, 1, "")
             ELSE cvc.data
        ELSE data

step5b(data) ==
    IF /\ getm(data, 0).res > 1
       /\ doubleConsonantSuffix(data, 0).res
       /\ stringEndsWith(data, "l")
    THEN replace(data, Len(data) - 1, 1, "")
    ELSE data

\* the steps stem calls once step 2 has left data
stemFromStep3(data) ==
    IF data = Fault THEN Fault ELSE step5b(step5a(step4(step3(data))))

\* PorterStemmer::stem; u is what the undefined reads of this call give
stem(text, u) ==
    stemFromStep3(step2(step1c(step1b(step1a(stringToLower(text)), u.res1b), u.res1c),
                        u.beyond))

-----------------------------------------------------------------------------
(* The tokenizer (PorterStemmer::stemLine) *)

STOPWORDS ==
    {"i", "me", "my", "myself", "we", "our", "ours", "ourselves", "you",
     "your", "yours", "yourself", "yourselves", "he", "him", "his",
     "himself", "she", "her", "hers", "herself", "it", "its", "itself",
     "they", "them", "their", "theirs", "themselves", "what", "which", "who",
     "whom", "this", "that", "these", "those", "am", "is", "are", "was",
     "were", "be", "been", "being", "have", "has", "had", "having", "do",
     "does", "did", "doing", "a", "an", "the", "and", "but", "if", "or",
     "because", "as", "until", "while", "of", "at", "by", "for", "with",
     "about", "against", "between", "into", "through", "during", "before",
     "after", "above", "below", "to", "from", "up", "down", "in", "out",
     "on", "off", "over", "under", "again", "further", "then", "once",
     "here", "there", "when", "where", "why", "how", "all", "any", "both",
     "each", "few", "more", "most", "other", "some", "such", "no", "nor",
     "not", "only", "own", "same", "so", "than", "too", "very", "s", "t",
     "can", "will", "just", "don", "should", "now"}

\* the characters of the source's list; its backquote has no TLA+ string
\* literal and occurs in no line of the model
PUNCTUATION ==
    {"!", "\"", "#", "$", "%", "&", "'", "(", ")", "*", "+", ",", " ", "-", ".",
     "/", ":", ";", "<", "=", ">", "?", "@", "[", "\\", "]", "^", "_", "{", "|",
     "}", "~"}

\* the characters of " \n\r\t"
WHITESPACE == {" ", "\n", "\r", "\t"}

WORD_STEM_THRESHOLD == 3

checkWordStemmable(word) ==
    ~(Len(word) < WORD_STEM_THRESHOLD \/ word \in STOPWORDS)

stemWord(word, idx, u) == [index |-> idx, original |-> word, stemmed |-> stem(word, u)]

\* text.find_first_not_of(chars) from position i, -1 for npos
RECURSIVE find_first_not_of(_, _, _)
find_first_not_of(text, chars, i) ==
    IF i >= Len(text) THEN -1
    ELSE IF at(text, i) \notin chars THEN i
    ELSE find_first_not_of(text, chars, i + 1)

\* text.find_last_not_of(chars) from position i down, -1 for npos
RECURSIVE find_last_not_of(_, _, _)
find_last_not_of(text, chars, i) ==
    IF i < 0 THEN -1
    ELSE IF at(text, i) \notin chars THEN i
    ELSE find_last_not_of(text, chars, i - 1)

\* word.find_first_of(chars, prev), -1 for npos
RECURSIVE find_first_of(_, _, _)
find_first_of(word, chars, prev) ==
    IF prev >= Len(word) THEN -1
    ELSE IF at(word, prev) \in chars THEN prev
    ELSE find_first_of(word, chars, prev + 1)

\* the words std::getline(iss, word, ' ') yields from position i of text on
RECURSIVE getwords(_, _)
getwords(text, i) ==
    LET pos == find_first_of(text, {" "}, i)
    IN  IF i >= Len(text) THEN <<>>
        ELSE IF pos = -1 THEN <<substr(text, i)>>
        ELSE <<SubSeq(text, i + 1, pos)>> \o getwords(text, pos + 1)

\* the inner while loop of stemLine; T = [stems, index, prev]
RECURSIVE splitWord(_, _, _)
splitWord(T, word, u) ==
    LET pos == find_first_of(word, PUNCTUATION, T.prev)
        part == SubSeq(word, T.prev + 1, pos)
    IN  IF pos = -1 THEN T
        ELSE splitWord(
                 [stems |-> IF pos > T.prev /\ checkWordStemmable(part)
                            THEN Append(T.stems, stemWord(part, T.index, u))
                            ELSE T.stems,
                  index |-> (IF pos > T.prev THEN T.index + Len(part) ELSE T.index) + 1,
                  prev |-> pos + 1],
                 word, u)

\* stemLineWordEnd without the column of the space that ends the word
stemLineWordEndOnly(W, word, u) ==
    LET part == IF W.prev < Len(word) THEN substr(word, W.prev) ELSE ""
    IN  [stems |-> IF W.prev < Len(word) /\ checkWordStemmable(part)
                   THEN Append(W.stems, stemWord(part, W.index, u))
                   ELSE W.stems,
         index |-> W.index + Len(part)]

\* the end of the body of the outer while loop of stemLine, W = [stems, index,
\* prev] being what the inner loop left
stemLineWordEnd(W, word, u) ==
    LET part == IF W.prev < Len(word) THEN substr(word, W.prev) ELSE ""
    IN  [stems |-> IF W.prev < Len(word) /\ checkWordStemmable(part)
                   THEN Append(W.stems, stemWord(part, W.index, u))
                   ELSE W.stems,
         index |-> W.index + Len(part) + 1]

\* the body of the outer while loop of stemLine; T = [stems, index]
stemLineWord(T, word, u) ==
    stemLineWordEnd(splitWord([stems |-> T.stems, index |-> T.index, prev |-> 0], word, u),
                    word, u)

RECURSIVE stemLineWords(_, _, _, _)
stemLineWords(T, words, i, u) ==
    IF i > Len(words) THEN T
    ELSE stemLineWords(stemLineWord(T, words[i], u), words, i + 1, u)

\* PorterStemmer::stemLine; u is what the undefined reads of the call give
stemLine(text, u) ==
    LET trailing_spaces == find_first_not_of(text, WHITESPACE, 0)
        last_char == find_last_not_of(text, WHITESPACE, Len(text) - 1)
        trimmed == IF trailing_spaces = -1 THEN ""
                   ELSE SubSeq(text, trailing_spaces + 1, last_char + 1)
    IN  stemLineWords([stems |-> <<>>, index |-> trailing_spaces],
                      getwords(trimmed, 0), 1, u).stems

fromStem(s, document_id, lineno) ==
    [index |-> s.index, original |-> s.original, stemmed |-> s.stemmed,
     document_id |-> document_id, line |-> lineno]

toJSON(occ) == [line |-> occ.line, index |-> occ.index, original |-> occ.original]

-----------------------------------------------------------------------------
(* JSON values and files *)

JsonNull == [type |-> "null", val |-> EmptyMap]

JsonObject(f) == [type |-> "object", val |-> f]

\* nlohmann::json::operator[](key) = value: null becomes an object first
JsonSet(j, k, v) == JsonObject(Put(j.val, k, v))

\* std::to_string on the document IDs of the model
DECIMAL == <<"0", "1", "2", "3", "4", "5", "6", "7", "8", "9">>

to_string(n) == DECIMAL[n + 1]

ARTIFACTS == <<"documents.json", "term_occurrences.json", "term_documents.json">>

Absent == [state |-> "absent", json |-> JsonNull]

Partial == [state |-> "partial", json |-> JsonNull]

Complete(j) == [state |-> "complete", json |-> j]

NoArtifacts == [n \in Range(ARTIFACTS) |-> Absent]

checkFileExists(d, name) == d[name].state # "absent"

-----------------------------------------------------------------------------
(* The corpus *)

extension(p) == IF p = "corpus/notes.md" THEN ".md" ELSE ".txt"

EmptyText == <<>>

CatText == <<"cats rat", "cat">>

DogText == <<"dog rat">>

Notes == "corpus/notes.md" :> DogText

\* std::ifstream fs(path): whether the stream opens; locked.txt is a text file
\* the process has no permission to read
canOpen(p) == p # "corpus/locked.txt"

\* the lines getline yields; none from a stream that did not open
getlines(c, p) == IF canOpen(p) THEN c[p] ELSE <<>>

\* the contents of the corpus directory the user switches between
Corpora == { Notes,
             Notes @@ ("corpus/a.txt" :> CatText),
             ("corpus/a.txt" :> CatText) @@ ("corpus/b.txt" :> DogText),
             ("corpus/a.txt" :> EmptyText) @@ ("corpus/b.txt" :> DogText),
             ("corpus/b.txt" :> DogText) @@ ("corpus/locked.txt" :> CatText) }

\* the queries typed by the user
Queries == {"the", "cats dog rat", "rat the rat"}

\* every line the engine tokenizes
Lines == Queries \cup UNION {UNION {Range(c[p]) : p \in DOMAIN c} : c \in Corpora}

\* the words of these lines are stemmed without an undefined read, and
\* stemLine gives the same stems whatever such a read would have given
Defined == [res1b |-> FALSE, res1c |-> FALSE, beyond |-> "row"]

Tokens == [text \in Lines |-> stemLine(text, Defined)]

Vocabulary == UNION {{Tokens[text][i].stemmed : i \in 1..Len(Tokens[text])} : text \in Lines}

-----------------------------------------------------------------------------
(* The engine: E is the record of the four fields of SearchEngine *)

Engine == [documents |-> documents, term_occurrences |-> term_occurrences,
           term_documents |-> term_documents, doc_id_tracker |-> doc_id_tracker]

FreshEngine == [documents |-> EmptyMap, term_occurrences |-> EmptyMap,
                term_documents |-> EmptyMap, doc_id_tracker |-> -1]

NullJsons == [documents |-> JsonNull, term_occurrences |-> JsonNull,
              term_documents |-> JsonNull]

getIndexSize(E) == Cardinality(DOMAIN E.documents)

\* one iteration of the inner loop of indexDocument; S = [E, J]
indexStem(S, s, document_id, lineno) ==
    LET E == S.E
        J == S.J
        occ == fromStem(s, document_id, lineno)
        t == s.stemmed
        doc_occs == E.term_occurrences[document_id]
        new_occs == Put(doc_occs, t, Append(Get(doc_occs, t, <<>>), occ))
        new_docs == Get(E.term_documents, t, {}) \cup {document_id}
        id_str == to_string(document_id)
        json_doc == J.term_occurrences.val[id_str]
        json_occs == Put(json_doc, t, Append(Get(json_doc, t, <<>>), toJSON(occ)))
    IN  [E |-> [E EXCEPT !.term_occurrences = Put(@, document_id, new_occs),
                         !.term_documents = Put(@, t, new_docs)],
         J |-> [J EXCEPT !.term_occurrences = JsonSet(@, id_str, json_occs),
                         !.term_documents = JsonSet(@, t, SetToSeq(new_docs))]]

RECURSIVE indexStems(_, _, _, _, _)
indexStems(S, stems, i, document_id, lineno) ==
    IF i > Len(stems) THEN S
    ELSE indexStems(indexStem(S, stems[i], document_id, lineno),
                    stems, i + 1, document_id, lineno)

RECURSIVE indexLines(_, _, _, _)
indexLines(S, text, lineno, document_id) ==
    IF lineno >= Len(text) THEN S
    ELSE indexLines(indexStems(S, Tokens[text[lineno + 1]], 1, document_id, lineno),
                    text, lineno + 1, document_id)

indexDocument(S, path, text) ==
    LET document_id == S.E.doc_id_tracker + 1
        id_str == to_string(document_id)
        E1 == [S.E EXCEPT !.doc_id_tracker = document_id,
                          !.documents = Put(@, document_id, path),
                          !.term_occurrences = Put(@, document_id, EmptyMap)]
        J1 == [S.J EXCEPT !.documents = JsonSet(@, path, document_id),
                          !.term_occurrences = JsonSet(@, id_str, EmptyMap)]
    IN  indexLines([E |-> E1, J |-> J1], text, 0, document_id)

-----------------------------------------------------------------------------
(* Loading the artifacts *)

parseOccurrences(occs, term, document_id) ==
    [i \in 1..Len(occs) |->
        [index |-> occs[i].index, original |-> occs[i].original, stemmed |-> term,
         document_id |-> document_id, line |-> occs[i].line]]

\* body of the outer loop of loadFromFiles for one (path, ID) of documents.json
loadDocument(E, path, document_id, term_occurrences_json) ==
    LET terms_json == Get(term_occurrences_json.val, to_string(document_id), EmptyMap)
        loaded == {t \in DOMAIN terms_json : Len(terms_json[t]) > 0}
        old == Get(E.term_occurrences, document_id, EmptyMap)
        new == [t \in (DOMAIN old) \cup loaded |->
                   Get(old, t, <<>>)
                   \o (IF t \in loaded
                       THEN parseOccurrences(terms_json[t], t, document_id)
                       ELSE <<>>)]
    IN  [E EXCEPT !.documents = Put(@, document_id, path),
                  !.term_occurrences =
                      IF loaded = {} /\ document_id \notin DOMAIN @
                      THEN @ ELSE Put(@, document_id, new)]

RECURSIVE loadDocuments(_, _, _, _)
loadDocuments(E, documents_json, keys, term_occurrences_json) ==
    IF keys = {} THEN E
    ELSE LET path == CHOOSE p \in keys : TRUE
         IN  loadDocuments(
                 loadDocument(E, path, documents_json.val[path], term_occurrences_json),
                 documents_json, keys \ {path}, term_occurrences_json)

\* nlohmann::json::parse throws on a file that does not hold a whole JSON text
readJSONThrows(d) == \E n \in Range(ARTIFACTS) : d[n].state = "partial"

\* json::get<std::map<std::string, std::set<int>>> throws unless the value is an object
getMapThrows(j) == j.type # "object"

loadFromFiles(E, d) ==
    LET documents_json == d["documents.json"].json
        term_occurrences_json == d["term_occurrences.json"].json
        term_documents_json == d["term_documents.json"].json
        E1 == loadDocuments(E, documents_json, DOMAIN documents_json.val,
                            term_occurrences_json)
    IN  IF readJSONThrows(d) THEN [thrown |-> TRUE, E |-> E]
        ELSE IF getMapThrows(term_documents_json) THEN [thrown |-> TRUE, E |-> E1]
        ELSE [thrown |-> FALSE,
              E |-> [E1 EXCEPT !.term_documents =
                        [t \in DOMAIN term_documents_json.val |->
                            Range(term_documents_json.val[t])]]]

-----------------------------------------------------------------------------
(* Walking the corpus and saving *)

RECURSIVE indexFiles(_, _, _, _)
indexFiles(S, c, order, i) ==
    IF i > Len(order) THEN S
    ELSE indexFiles(IF extension(order[i]) # ".txt" THEN S
                    ELSE indexDocument(S, order[i], getlines(c, order[i])),
                    c, order, i + 1)

TxtFiles(c) == {p \in DOMAIN c : extension(p) = ".txt"}

\* The points at which the process can stop inside the three writeJSON calls:
\* 0 before the first write, 2k-1 while file k is being written, 2k after it.
NoStop == 2 * Len(ARTIFACTS)

StopPoints == 0..(NoStop - 1)

\* the working directory after the writes that were reached before the stop
writeJSONs(d, J, stop) ==
    LET content == <<J.documents, J.term_occurrences, J.term_documents>>
    IN  [n \in Range(ARTIFACTS) |->
            LET k == CHOOSE i \in 1..Len(ARTIFACTS) : ARTIFACTS[i] = n
            IN  IF stop >= 2 * k THEN Complete(content[k])
                ELSE IF stop = 2 * k - 1 THEN Partial
                ELSE d[n]]

Files(d) == [n \in Range(ARTIFACTS) |-> d[n]]

NoSave == [saved |-> FALSE, files |-> NoArtifacts]

-----------------------------------------------------------------------------
(* Ranking *)

\* std::log scaled by 10^6; the logarithm of a product is the sum of the
\* logarithms of its factors, so equal scores compare equal
LN == <<0, 693147, 1098612, 1386294, 1609438, 1791759, 1945910, 2079441,
        2197224, 2302585>>

\* The score idf * tf is kept as its four operands.
\* computeTF: both operator[] calls insert the key they do not find
computeTF(E, term, document_id) ==
    LET doc_occs == Get(E.term_occurrences, document_id, EmptyMap)
        with_term == Put(doc_occs, term, Get(doc_occs, term, <<>>))
    IN  [E |-> [E EXCEPT !.term_occurrences = Put(@, document_id, with_term)],
         term_freq |-> Len(with_term[term]),
         total_terms |-> Cardinality(DOMAIN with_term)]

computeIDF(E, term) ==
    [total_docs |-> Cardinality(DOMAIN E.term_documents),
     df |-> IF term \notin DOMAIN E.term_documents THEN 0
            ELSE Cardinality(E.term_documents[term])]

computeTfIdf(E, term, document_id) ==
    LET tf == computeTF(E, term, document_id)
        idf == computeIDF(tf.E, term)
    IN  [E |-> tf.E,
         score |-> [term_freq |-> tf.term_freq, total_terms |-> tf.total_terms,
                    total_docs |-> idf.total_docs, df |-> idf.df]]

\* numerator of the score over the denominator total_terms, scaled by 10^6
Scaled(score) == score.term_freq * (LN[score.total_docs] - LN[score.df + 1])

\* std::get<2>(a) > std::get<2>(b)
Greater(a, b) == Scaled(a) * b.total_terms > Scaled(b) * a.total_terms

\* term_documents[term]: inserts an empty set for a term that is not a key
lookupTermDocuments(E, term) ==
    [E EXCEPT !.term_documents = Put(@, term, Get(@, term, {}))]

RECURSIVE findCommonDocumentsFrom(_, _, _, _)
findCommonDocumentsFrom(E, query_terms, i, common_document_ids) ==
    IF i > Len(query_terms) THEN [E |-> E, ids |-> common_document_ids]
    ELSE LET E1 == lookupTermDocuments(E, query_terms[i].stemmed)
             term_document_ids == E1.term_documents[query_terms[i].stemmed]
             inserter_set == IF common_document_ids = {}
                             THEN common_document_ids \cup term_document_ids
                             ELSE common_document_ids \cap term_document_ids
         IN  findCommonDocumentsFrom(E1, query_terms, i + 1, inserter_set)

findCommonDocuments(E, query_terms) == findCommonDocumentsFrom(E, query_terms, 1, {})

\* the inner loop of getRelevantScores over the documents of one term;
\* R = [E, scores]
RECURSIVE scoreDocuments(_, _, _, _)
scoreDocuments(R, term, ids, i) ==
    IF i > Len(ids) THEN R
    ELSE LET c == computeTfIdf(R.E, term.stemmed, ids[i])
             tup == [query_term |-> term, document_id |-> ids[i],
                     relevance_score |-> c.score]
         IN  scoreDocuments([E |-> c.E, scores |-> Append(R.scores, tup)],
                            term, ids, i + 1)

\* the outer loop with the OR strategy skipping the documents the vector
\* already holds
RECURSIVE scoreTermsOnce(_, _, _, _, _)
scoreTermsOnce(R, query_terms, i, search_strategy_and, common) ==
    IF i > Len(query_terms) THEN R
    ELSE LET E1 == IF search_strategy_and THEN R.E
                   ELSE lookupTermDocuments(R.E, query_terms[i].stemmed)
             held == {R.scores[k].document_id : k \in 1..Len(R.scores)}
             document_ids == IF search_strategy_and THEN common
                             ELSE E1.term_documents[query_terms[i].stemmed] \ held
         IN  scoreTermsOnce(scoreDocuments([E |-> E1, scores |-> R.scores],
                                           query_terms[i], SetToSeq(document_ids), 1),
                            query_terms, i + 1, search_strategy_and, common)

\* the outer loop of getRelevantScores from query term i on
RECURSIVE scoreTerms(_, _, _, _, _)
scoreTerms(R, query_terms, i, search_strategy_and, common) ==
    IF i > Len(query_terms) THEN R
    ELSE LET E1 == IF search_strategy_and THEN R.E
                   ELSE lookupTermDocuments(R.E, query_terms[i].stemmed)
             document_ids == IF search_strategy_and THEN common
                             ELSE E1.term_documents[query_terms[i].stemmed]
         IN  scoreTerms(scoreDocuments([E |-> E1, scores |-> R.scores],
                                       query_terms[i], SetToSeq(document_ids), 1),
                        query_terms, i + 1, search_strategy_and, common)

\* the entries of the vector that have, or do not have, the best score in it
RECURSIVE selectBest(_, _, _, _)
selectBest(scores, all, i, wanted) ==
    IF i > Len(scores) THEN <<>>
    ELSE LET best == \A j \in 1..Len(all) :
                        ~Greater(all[j].relevance_score, scores[i].relevance_score)
         IN  (IF best = wanted THEN <<scores[i]>> ELSE <<>>)
             \o selectBest(scores, all, i + 1, wanted)

\* std::sort with the comparator of getRelevantScores. It leaves the order of
\* entries of equal score open: the sorted vector is kept as the sequence of
\* its runs of equal score, best first, and the order inside a run means nothing.
RECURSIVE sortDescending(_)
sortDescending(scores) ==
    IF scores = <<>> THEN <<>>
    ELSE <<selectBest(scores, scores, 1, TRUE)>>
         \o sortDescending(selectBest(scores, scores, 1, FALSE))

getRelevantScores(E, query_terms, search_strategy_and) ==
    LET c == IF search_strategy_and THEN findCommonDocuments(E, query_terms)
             ELSE [E |-> E, ids |-> {}]
        R == scoreTerms([E |-> c.E, scores |-> <<>>], query_terms, 1,
                        search_strategy_and, c.ids)
    IN  [E |-> R.E, relevance_scores |-> sortDescending(R.scores)]

\* search once stemLine has returned the terms of the query
searchTerms(E, terms, search_strategy_and) ==
    LET r == getRelevantScores(E, terms, search_strategy_and)
    IN  IF terms = <<>> THEN [E |-> E, results |-> <<>>]
        ELSE [E |-> r.E,
              results |->
                 [i \in 1..Len(r.relevance_scores) |->
                    [j \in 1..Len(r.relevance_scores[i]) |->
                        LET x == r.relevance_scores[i][j]
                        IN  [query_term |-> x.query_term,
                             document_id |-> x.document_id,
                             relevance_score |-> x.relevance_score,
                             occurrences |->
                                 r.E.term_occurrences[x.document_id]
                                                     [x.query_term.stemmed]]]]]

search(E, query, search_strategy_and) ==
    searchTerms(E, Tokens[query], search_strategy_and)

-----------------------------------------------------------------------------
(* The graphical program: its search bar, its states and their events *)

\* static_cast<char>(unicode) for the keys of the model
ASCII == (32 :> " ") @@ (97 :> "a")

\* a SearchBar as it is constructed
SearchBar == [value |-> "", cursor_pos |-> 0, search_button_hovered |-> FALSE]

moveCursorLeftUnchecked(bar) == [bar EXCEPT !.cursor_pos = @ - 1]

moveCursorLeft(bar) ==
    IF bar.cursor_pos = 0 THEN bar ELSE [bar EXCEPT !.cursor_pos = @ - 1]

moveCursorRight(bar) ==
    IF bar.cursor_pos = Len(bar.value) THEN bar ELSE [bar EXCEPT !.cursor_pos = @ + 1]

\* cb_val: what sf::Clipboard::getString returns
addChar(bar, unicode, cb_val) ==
    IF unicode = 8
    THEN IF bar.value # "" /\ bar.cursor_pos # 0
         THEN [bar EXCEPT !.value = replace(@, bar.cursor_pos - 1, 1, ""),
                          !.cursor_pos = @ - 1]
         ELSE bar
    ELSE IF unicode = 22
    THEN [bar EXCEPT !.value = SubSeq(@, 1, bar.cursor_pos) \o cb_val
                               \o substr(@, bar.cursor_pos),
                     !.cursor_pos = @ + Len(cb_val)]
    ELSE IF unicode < 128
    THEN [bar EXCEPT !.value = replace(@, bar.cursor_pos, 0, ASCII[unicode]),
                     !.cursor_pos = @ + 1]
    ELSE bar

\* the value the bar holds after addChar is at most n characters long
addCharFits(bar, unicode, cb_val, n) ==
    Len(addChar(bar, unicode, cb_val).value) <= n

\* AppData as it is constructed
AppData == [indexes_loaded |-> FALSE, indexes_use_data |-> TRUE, state_reset |-> FALSE]

\* new StateHome(): its shapes have no size until draw has laid them out; the
\* hover flags of the shapes, which only colour them, are left out
StateHome ==
    [state |-> [name |-> "home", query |-> "", search_strategy_and |-> TRUE,
                results |-> <<>>, search_results_fetched |-> FALSE,
                drawn |-> FALSE],
     searchbar |-> SearchBar]

\* new StateSearch(search_value, search_strategy_and_value)
StateSearch(search_value, search_strategy_and_value) ==
    [state |-> [name |-> "search", query |-> search_value,
                search_strategy_and |-> search_strategy_and_value,
                results |-> <<>>, search_results_fetched |-> FALSE,
                drawn |-> FALSE],
     searchbar |-> [SearchBar EXCEPT !.value = search_value,
                                     !.cursor_pos = Len(search_value)]]

\* where the mouse is when sf::Mouse::getPosition is called
Places == {"search_button", "search_strategy_toggle", "reindex_button",
           "open_corpus_dir", "back_home_button", "elsewhere"}

\* shape.getGlobalBounds().contains(mouse) for a shape of the state st
contains(st, shape, mouse) == st.drawn /\ mouse = shape

\* processEventSearchbar: the bar after the event and the value returned
processEventSearchbar(event, st, bar, mouse, cb_val) ==
    IF event.type = "TextEntered"
    THEN [searchbar |-> addChar(bar, event.unicode, cb_val), clicked |-> FALSE]
    ELSE IF event.type = "KeyPressed"
    THEN [searchbar |-> IF event.code = "Left" THEN moveCursorLeft(bar)
                        ELSE IF event.code = "Right" THEN moveCursorRight(bar)
                        ELSE bar,
          clicked |-> FALSE]
    ELSE IF event.type = "MouseMoved"
    THEN [searchbar |-> [bar EXCEPT !.search_button_hovered =
                                        contains(st, "search_button", mouse)],
          clicked |-> FALSE]
    ELSE [searchbar |-> bar,
          clicked |-> event.type = "MouseButtonReleased"
                      /\ contains(st, "search_button", mouse)]

\* the shape of the state the mouse is over, "none" if it is over none
hoveredShape(st, shapes, mouse) ==
    IF \E shape \in shapes : contains(st, shape, mouse) THEN mouse ELSE "none"

\* StateHome::processEvent: the state, its bar and the application data after it
StateHomeProcessEvent(event, st, bar, data, mouse, cb_val) ==
    LET r == processEventSearchbar(event, st, bar, mouse, cb_val)
        over == hoveredShape(st, {"search_strategy_toggle", "reindex_button",
                                  "open_corpus_dir"}, mouse)
        released == event.type = "MouseButtonReleased"
    IN  IF r.clicked
        THEN StateSearch(r.searchbar.value, st.search_strategy_and) @@ [data |-> data]
        ELSE IF /\ ~r.searchbar.search_button_hovered
                /\ event.type \in {"MouseMoved", "MouseButtonReleased"}
        THEN [state |-> [st EXCEPT
                            !.search_strategy_and =
                                IF released /\ over = "search_strategy_toggle"
                                THEN ~@ ELSE @],
              searchbar |-> r.searchbar,
              data |-> IF released /\ over = "reindex_button"
                       THEN [data EXCEPT !.indexes_loaded = FALSE,
                                         !.indexes_use_data = FALSE]
                       ELSE data]
        ELSE [state |-> st, searchbar |-> r.searchbar, data |-> data]

\* StateSearch::processEvent; a click on a result heading hands the path of the
\* document to the system and changes nothing here
StateSearchProcessEvent(event, st, bar, data, mouse, cb_val) ==
    LET r == processEventSearchbar(event, st, bar, mouse, cb_val)
        over == hoveredShape(st, {"back_home_button"}, mouse)
    IN  IF r.clicked
        THEN StateSearch(r.searchbar.value, st.search_strategy_and) @@ [data |-> data]
        ELSE IF /\ ~r.searchbar.search_button_hovered
                /\ event.type \in {"MouseMoved", "MouseButtonReleased"}
        THEN [state |-> st,
              searchbar |-> r.searchbar,
              data |-> IF over = "back_home_button" /\ event.type = "MouseButtonReleased"
                       THEN [data EXCEPT !.state_reset = TRUE] ELSE data]
        ELSE [state |-> st, searchbar |-> r.searchbar, data |-> data]

\* state->processEvent(event, window, state, data)
processEvent(event, st, bar, data, mouse, cb_val) ==
    IF st.name = "home" THEN StateHomeProcessEvent(event, st, bar, data, mouse, cb_val)
    ELSE StateSearchProcessEvent(event, st, bar, data, mouse, cb_val)

\* main before its loop: the window is open and nothing has been polled
FirstFrame == [pc |-> "events", polled |-> 0, open |-> TRUE]

-----------------------------------------------------------------------------
(* State machine *)

SetEngine(E) ==
    /\ documents' = E.documents
    /\ term_occurrences' = E.term_occurrences
    /\ term_documents' = E.term_documents
    /\ doc_id_tracker' = E.doc_id_tracker

Init ==
    /\ corpus = Notes
    /\ disk = NoArtifacts
    /\ committed = NoSave
    /\ documents = EmptyMap
    /\ term_occurrences = EmptyMap
    /\ term_documents = EmptyMap
    /\ doc_id_tracker = -1
    /\ running = TRUE
    /\ results = <<>>
    /\ runs = 0
    /\ stemmer_data = ""
    /\ line_stems = <<>>
    /\ searchbar = StateHome.searchbar
    /\ app_data = AppData
    /\ state = StateHome.state
    /\ frame = FirstFrame
    /\ last = [op |-> "new", path |-> <<"corpus", "/">>, refers |-> "directory",
               thrown |-> FALSE]

\* the user adds, changes or removes text files of the corpus directory
ChangeCorpus(c) ==
    /\ c # corpus
    /\ corpus' = c
    /\ UNCHANGED <<disk, committed, documents, term_occurrences, term_documents,
                   doc_id_tracker, running, results, runs, stemmer_data,
                   line_stems, gui, last>>

\* A path string is the sequence of its names and separators.
\* std::filesystem::path::has_filename: the path does not end with a separator
has_filename(path) == path # <<>> /\ path[Len(path)] # "/"

CorpusDirectory == <<"corpus", "/">>

\* the strings a program can hand to the constructor
PathStrings == {CorpusDirectory, <<"corpus">>, <<"corpus", "/", "a.txt">>}

\* what the path refers to in the file system
refersTo(path, c) ==
    IF path \in {<<"corpus">>, <<"corpus", "/">>} THEN "directory"
    ELSE IF path = <<"corpus", "/", "a.txt">> /\ "corpus/a.txt" \in DOMAIN c THEN "file"
    ELSE "nothing"

\* SearchEngine(corpus_directory_path_str): the constructor throws when the
\* path has a filename, and nothing catches what it throws
NewEngine(corpus_directory_path_str) ==
    LET thrown == has_filename(corpus_directory_path_str)
    IN  /\ last.op = "new" => last.thrown
        /\ SetEngine(FreshEngine)
        /\ running' = ~thrown
        /\ results' = <<>>
        /\ last' = [op |-> "new", path |-> corpus_directory_path_str,
                    refers |-> refersTo(corpus_directory_path_str, corpus),
                    thrown |-> thrown]
        /\ UNCHANGED <<corpus, disk, committed, runs, stemmer_data, line_stems>>

\* a program that has no window constructs its engine
Construct(corpus_directory_path_str) ==
    NewEngine(corpus_directory_path_str) /\ UNCHANGED gui

\* main: the program is started (again) and constructs its engine
Restart == Construct(CorpusDirectory)

\* indexCorpusDirectory(true) finding the three artifacts: loadFromFiles
LoadIndexes ==
    LET r == loadFromFiles(Engine, disk)
    IN  /\ running
        /\ runs < MaxRuns
        /\ \A n \in Range(ARTIFACTS) : checkFileExists(disk, n)
        /\ SetEngine(IF r.thrown THEN FreshEngine ELSE r.E)
        /\ running' = ~r.thrown
        /\ results' = <<>>
        /\ runs' = runs + 1
        /\ last' = [op |-> "index", loaded |-> TRUE, walked |-> FALSE,
                    txt |-> {}, saved |-> FALSE, stop |-> NoStop,
                    thrown |-> r.thrown, fresh |-> (Engine = FreshEngine),
                    held |-> getIndexSize(Engine)]
        /\ UNCHANGED <<corpus, disk, committed, stemmer_data, line_stems>>

\* the call made by a program that has no window
IndexLoad == LoadIndexes /\ UNCHANGED gui

\* indexCorpusDirectory(useData) walking the corpus in the order the directory
\* iterator yields its entries; stop is the point at which the process stops
\* while it writes the artifacts, NoStop when it does not
WalkCorpus(useData, order, stop) ==
    LET S == indexFiles([E |-> Engine, J |-> NullJsons], corpus, order, 1)
        empty == getIndexSize(S.E) = 0
        stopped == ~empty /\ stop # NoStop
    IN  /\ running
        /\ runs < MaxRuns
        /\ ~(useData /\ \A n \in Range(ARTIFACTS) : checkFileExists(disk, n))
        /\ empty => stop = NoStop
        /\ SetEngine(IF stopped THEN FreshEngine ELSE S.E)
        /\ running' = ~stopped
        /\ disk' = IF empty THEN disk ELSE writeJSONs(disk, S.J, stop)
        /\ committed' = IF empty \/ stopped THEN committed
                        ELSE [saved |-> TRUE, files |-> Files(disk')]
        /\ results' = <<>>
        /\ runs' = runs + 1
        /\ last' = [op |-> "index", loaded |-> FALSE, walked |-> TRUE,
                    txt |-> TxtFiles(corpus), saved |-> ~empty, stop |-> stop,
                    thrown |-> FALSE, fresh |-> (Engine = FreshEngine),
                    held |-> getIndexSize(Engine)]
        /\ UNCHANGED <<corpus, stemmer_data, line_stems>>

\* the call made by a program that has no window
IndexWalk(useData, order, stop) == WalkCorpus(useData, order, stop) /\ UNCHANGED gui

\* main searches once indexCorpusDirectory has returned
Search(query, search_strategy_and) ==
    LET r == search(Engine, query, search_strategy_and)
    IN  /\ running
        /\ last.op # "new"
        /\ SetEngine(r.E)
        /\ results' = r.results
        /\ last' = [op |-> "search", query_terms |-> Tokens[query],
                    search_strategy_and |-> search_strategy_and]
        /\ UNCHANGED <<corpus, disk, committed, running, runs, stemmer_data,
                       line_stems, gui>>

\* Indexing, with the process stopping at any point of a save
Next ==
    \/ \E c \in Corpora : ChangeCorpus(c)
    \/ Restart
    \/ IndexLoad
    \/ \E useData \in BOOLEAN, order \in Orders(DOMAIN corpus),
          stop \in StopPoints \cup {NoStop} : IndexWalk(useData, order, stop)

Spec == Init /\ [][Next]_vars

\* Indexing and searching, every save running to its end
NextSearch ==
    \/ \E c \in Corpora : ChangeCorpus(c)
    \/ Restart
    \/ runs < MaxSearchRuns /\ IndexLoad
    \/ \E useData \in BOOLEAN, order \in Orders(DOMAIN corpus) :
          runs < MaxSearchRuns /\ IndexWalk(useData, order, NoStop)
    \/ \E query \in Queries, search_strategy_and \in BOOLEAN :
          Search(query, search_strategy_and)

SearchSpec == Init /\ [][NextSearch]_vars

\* Indexing by programs that construct the engine with any path string
NextConstruct ==
    \/ \E c \in Corpora : ChangeCorpus(c)
    \/ \E corpus_directory_path_str \in PathStrings :
          Construct(corpus_directory_path_str)
    \/ IndexLoad
    \/ \E useData \in BOOLEAN, order \in Orders(DOMAIN corpus) :
          IndexWalk(useData, order, NoStop)

ConstructSpec == Init /\ [][NextConstruct]_vars

-----------------------------------------------------------------------------
(* The stemmer used on its own: a program that sets data and calls the steps *)
(* one by one, as TestablePorterStemmer does, or calls stem and stemLine     *)

\* the words handed to the stemmer
Words == {"age", "ate", "cease", "rate", "probate", "The", "cats", "ponies",
          "hopping", "sing", "sky", "run", "relational", "agreed", "element"}

\* TestablePorterStemmer::setData, by a program started for it
setData(input) ==
    /\ stemmer_data' = stringToLower(input)
    /\ last' = [op |-> "setData", text |-> input]
    /\ UNCHANGED <<engine, line_stems, gui>>

\* what a step called on data leaves behind
Stepped(op, result) ==
    /\ stemmer_data' = result
    /\ last' = [op |-> op, text |-> stemmer_data]
    /\ UNCHANGED <<engine, line_stems, gui>>

\* the data has been set and no step has faulted on it
Steppable == last.op # "new" /\ stemmer_data # Fault

Step1a == Steppable /\ Stepped("step1a", step1a(stemmer_data))

Step1b(res) == Steppable /\ Stepped("step1b", step1b(stemmer_data, res))

Step1c(res) == Steppable /\ Stepped("step1c", step1c(stemmer_data, res))

Step2(beyond) == Steppable /\ Stepped("step2", step2(stemmer_data, beyond))

Step3 == Steppable /\ Stepped("step3", step3(stemmer_data))

Step4 == Steppable /\ Stepped("step4", step4(stemmer_data))

Step5a == Steppable /\ Stepped("step5a", step5a(stemmer_data))

Step5b == Steppable /\ Stepped("step5b", step5b(stemmer_data))

\* the helpers, called on data as the steps and the tests call them
CallGetm ==
    /\ Steppable
    /\ \E suffix_length \in 0..Len(stemmer_data) :
          Stepped("getm", getm(stemmer_data, suffix_length).data)

CallContainsVowel ==
    /\ Steppable
    /\ \E suffix_length \in 0..Len(stemmer_data), res \in BOOLEAN :
          Stepped("containsVowel", containsVowel(stemmer_data, suffix_length, res).data)

CallDoubleConsonantSuffix ==
    /\ Steppable
    /\ \E suffix_length \in 0..Len(stemmer_data) :
          Stepped("doubleConsonantSuffix",
                  doubleConsonantSuffix(stemmer_data, suffix_length).data)

CallEndsCVC ==
    /\ Steppable
    /\ \E suffix_length \in 0..Len(stemmer_data) :
          Stepped("endsCVC", endsCVC(stemmer_data, suffix_length).data)

\* PorterStemmer::stem(text)
Stem(text, u) ==
    /\ stemmer_data # Fault
    /\ stemmer_data' = stem(text, u)
    /\ last' = [op |-> "stem", text |-> text, stemmed |-> stemmer_data']
    /\ UNCHANGED <<engine, line_stems, gui>>

\* stem called on the word the last call of stem returned
StemAgain(u) == last.op = "stem" /\ Stem(last.stemmed, u)

NextStem ==
    \/ \E input \in Words : setData(input)
    \/ Step1a
    \/ \E res \in BOOLEAN : Step1b(res)
    \/ \E res \in BOOLEAN : Step1c(res)
    \/ \E beyond \in {"row", "fault"} : Step2(beyond)
    \/ Step3
    \/ Step4
    \/ Step5a
    \/ Step5b
    \/ CallGetm
    \/ CallContainsVowel
    \/ CallDoubleConsonantSuffix
    \/ CallEndsCVC
    \/ \E text \in Words, u \in Undefined : Stem(text, u)
    \/ \E u \in Undefined : StemAgain(u)

StemSpec == Init /\ [][NextStem]_vars

\* the pieces the lines handed to stemLine are made of
Pieces == {"The", "the", "AND", "an", "dog", "cats", " ", "  ", "#"}

MaxPieces == 3

RECURSIVE PieceLines(_)
PieceLines(n) ==
    IF n = 0 THEN {""}
    ELSE PieceLines(n - 1) \cup {text \o piece : text \in PieceLines(n - 1), piece \in Pieces}

TextLines == PieceLines(MaxPieces)

\* what stemLine leaves when it has computed result; a fault in stem ends the call
Returned(text, result) ==
    LET faulted == \E i \in 1..Len(result) : result[i].stemmed = Fault
    IN  /\ line_stems' = IF faulted THEN <<>> ELSE result
        /\ stemmer_data' = IF faulted THEN Fault
                           ELSE IF result = <<>> THEN stemmer_data
                           ELSE result[Len(result)].stemmed
        /\ last' = [op |-> "stemLine", text |-> text]
        /\ UNCHANGED <<engine, gui>>

\* PorterStemmer::stemLine(text) by a program started for the line
StemLine(text, u) == last.op = "new" /\ Returned(text, stemLine(text, u))

NextLine == \E text \in TextLines, u \in Undefined : StemLine(text, u)

LineSpec == Init /\ [][NextLine]_vars

-----------------------------------------------------------------------------
(* The graphical program: one frame of the loop of main is the events it   *)
(* polls, the draw of its state, and what it does after the display         *)

MaxEvents == 2

MaxValue == 3

MaxWindowRuns == 2

\* the keys that enter text: backspace, paste, the space bar, a character
\* above 127
Keys == {8, 22, 32, 233}

Clipboard == {"rat"}

\* the events main hands to the state: keys, and the mouse with its left button
KeyEvents ==
    [type : {"TextEntered"}, unicode : Keys]
        \cup [type : {"KeyPressed"}, code : {"Left", "Right"}]

MouseEvents == [type : {"MouseMoved", "MouseButtonReleased"}]

Paste == [type |-> "TextEntered", unicode |-> 22]

\* the corpus directories the user of the window switches between
WindowCorpora == {Notes, Notes @@ ("corpus/a.txt" :> CatText)}

\* the program with the window is started: main up to its loop
Start ==
    /\ frame.pc = "closed" \/ ~running
    /\ NewEngine(CorpusDirectory)
    /\ searchbar' = StateHome.searchbar
    /\ app_data' = AppData
    /\ state' = StateHome.state
    /\ frame' = FirstFrame

\* window.pollEvent(event) yields sf::Event::Closed: window.close()
Close ==
    /\ running
    /\ frame.pc = "events"
    /\ frame.polled < MaxEvents
    /\ frame.open
    /\ frame' = [frame EXCEPT !.polled = @ + 1, !.open = FALSE]
    /\ last' = [op |-> "event", event |-> [type |-> "Closed"]]
    /\ UNCHANGED <<engine, stemmer_data, line_stems, searchbar, app_data, state>>

\* window.pollEvent(event) yields an event for the state; mouse is where the
\* mouse is and cb_val what the clipboard holds when the state handles it
ProcessEvent(event, mouse, cb_val) ==
    LET r == processEvent(event, state, searchbar, app_data, mouse, cb_val)
    IN  /\ running
        /\ frame.pc = "events"
        /\ frame.polled < MaxEvents
        /\ event.type = "TextEntered" =>
               addCharFits(searchbar, event.unicode, cb_val, MaxValue)
        /\ searchbar' = r.searchbar
        /\ app_data' = r.data
        /\ state' = r.state
        /\ frame' = [frame EXCEPT !.polled = @ + 1]
        /\ last' = [op |-> "event", event |-> event]
        /\ UNCHANGED <<engine, stemmer_data, line_stems>>

\* state->draw: StateHome lays out its shapes; StateSearch fetches the results
\* of its query when it has not yet and draws them, and getDocumentPath throws
\* for a result whose document is not in documents
Draw ==
    LET fetch == state.name = "search" /\ ~state.search_results_fetched
        r == IF fetch
             THEN searchTerms(Engine, stemLine(state.query, Defined),
                              state.search_strategy_and)
             ELSE [E |-> Engine, results |-> state.results]
        shown == IF state.name = "search" THEN Flatten(r.results) ELSE <<>>
    IN  /\ running
        /\ frame.pc = "events"
        /\ SetEngine(r.E)
        /\ results' = IF fetch THEN r.results ELSE results
        /\ state' = [state EXCEPT !.results = r.results,
                                  !.search_results_fetched = @ \/ fetch,
                                  !.drawn = TRUE]
        /\ running' = \A i \in 1..Len(shown) : shown[i].document_id \in DOMAIN documents
        /\ frame' = [frame EXCEPT !.pc = "display"]
        /\ last' = [op |-> "draw", name |-> state.name, fetched |-> fetch,
                    indexes_loaded |-> app_data.indexes_loaded]
        /\ UNCHANGED <<corpus, disk, committed, runs, stemmer_data, line_stems,
                       searchbar, app_data>>

\* main after window.display(), when state_reset is set
resetState(st, bar, data) ==
    IF data.state_reset THEN StateHome ELSE [state |-> st, searchbar |-> bar]

\* main after window.display(): where the loop goes on
nextFrame(f) == IF f.open THEN FirstFrame ELSE [f EXCEPT !.pc = "closed"]

\* main after window.display() with indexes_loaded unset: it indexes
Index ==
    /\ frame.pc = "display"
    /\ ~app_data.indexes_loaded
    /\ runs < MaxWindowRuns
    /\ \/ app_data.indexes_use_data /\ LoadIndexes
       \/ \E order \in Orders(DOMAIN corpus) :
             WalkCorpus(app_data.indexes_use_data, order, NoStop)
    /\ app_data' = [indexes_loaded |-> TRUE, indexes_use_data |-> FALSE,
                    state_reset |-> FALSE]
    /\ searchbar' = resetState(state, searchbar, app_data).searchbar
    /\ state' = resetState(state, searchbar, app_data).state
    /\ frame' = nextFrame(frame)

\* main after window.display() with indexes_loaded set
Display ==
    /\ running
    /\ frame.pc = "display"
    /\ app_data.indexes_loaded
    /\ app_data' = [app_data EXCEPT !.state_reset = FALSE]
    /\ searchbar' = resetState(state, searchbar, app_data).searchbar
    /\ state' = resetState(state, searchbar, app_data).state
    /\ frame' = nextFrame(frame)
    /\ last' = [op |-> "display"]
    /\ UNCHANGED <<engine, stemmer_data, line_stems>>

\* The window used with the mouse, the query pasted into the bar
NextWindow ==
    \/ \E c \in WindowCorpora : ChangeCorpus(c)
    \/ Start
    \/ Close
    \/ \E event \in MouseEvents \cup {Paste}, mouse \in Places, cb_val \in Clipboard :
          ProcessEvent(event, mouse, cb_val)
    \/ Draw
    \/ Index
    \/ Display

WindowSpec == Init /\ [][NextWindow]_vars

\* The window used with the keyboard; the mouse only clicks the Search button
NextBar ==
    \/ \E event \in KeyEvents, cb_val \in Clipboard :
          ProcessEvent(event, "elsewhere", cb_val)
    \/ \E cb_val \in Clipboard :
          ProcessEvent([type |-> "MouseButtonReleased"], "search_button", cb_val)
    \/ Draw
    \/ Index
    \/ Display

BarSpec == Init /\ [][NextBar]_vars

-----------------------------------------------------------------------------
(* Properties *)

\* the vector returned by the last search, its order aside
AllResults == Flatten(results)

ResultDocuments == {AllResults[i].document_id : i \in 1..Len(AllResults)}

KnownIds == UNION {term_documents[t] : t \in DOMAIN term_documents}

IsSearchStep == last'.op = "search" /\ corpus' = corpus

IsIndexStep == last'.op = "index" /\ runs' = runs + 1

\* the last operation was a search whose query has at least one stem
SearchedAnd ==
    last.op = "search" /\ last.search_strategy_and /\ last.query_terms # <<>>

SearchedOr ==
    last.op = "search" /\ ~last.search_strategy_and /\ last.query_terms # <<>>

\* C1: under the AND strategy the documents of the results are exactly the
\* documents that are in term_documents[t] for every stem t of the query
\* (none when a stem is not in the index), whatever the number of stems.
AndIsIntersection ==
    SearchedAnd =>
        ResultDocuments =
            {d \in KnownIds : \A i \in 1..Len(last.query_terms) :
                d \in Get(term_documents, last.query_terms[i].stemmed, {})}

\* C2: under the OR strategy the results are, one for one, the pairs of a stem
\* of the query (each occurrence in the query counts) and a document of
\* term_documents[stem]; a stem without documents yields no result.
OrIsEveryPair ==
    SearchedOr =>
        LET pairs == {<<t, d>> \in Range(last.query_terms) \X KnownIds :
                         d \in Get(term_documents, t.stemmed, {})}
        IN  /\ Len(AllResults) = Cardinality(pairs)
            /\ {<<AllResults[i].query_term, AllResults[i].document_id>> :
                   i \in 1..Len(AllResults)} = pairs

\* C2 witness: an OR search whose query repeats a stem returned a document once
\* for each occurrence of the stem, and returned more than one document.
OrRepeatsDocument ==
    /\ SearchedOr
    /\ \E i, j \in 1..Len(AllResults) :
          /\ i # j
          /\ AllResults[i].document_id = AllResults[j].document_id
          /\ AllResults[i].query_term.stemmed = AllResults[j].query_term.stemmed
    /\ Cardinality(ResultDocuments) > 1

\* C3: search leaves documents, term_occurrences and term_documents as they
\* were, for every query and both strategies.
SearchLeavesIndex == [][IsSearchStep => index' = index]_vars

\* C4: an indexing run that walks the corpus on an engine holding an index
\* leaves exactly the .txt files of the corpus in the index, one ID each.
ReindexDiscards ==
    (last.op = "index" /\ last.walked /\ last.held > 0 /\ running) =>
        /\ getIndexSize(Engine) = Cardinality(last.txt)
        /\ Range(documents) = last.txt
        /\ DOMAIN term_occurrences = DOMAIN documents
        /\ KnownIds \subseteq DOMAIN documents

\* C5 (I1): d is in term_documents[t] exactly when term_occurrences[d] has a
\* non-empty entry at t, after any sequence of builds, reindexing runs and
\* loads by a newly started program, the saves having run to their end.
HasOccurrences(d, t) ==
    /\ d \in DOMAIN term_occurrences
    /\ t \in DOMAIN term_occurrences[d]
    /\ term_occurrences[d][t] # <<>>

I1 ==
    \A t \in Vocabulary, d \in KnownIds \cup DOMAIN term_occurrences :
        (d \in Get(term_documents, t, {})) <=> HasOccurrences(d, t)

IndexingKeepsI1 ==
    (/\ running
     /\ Files(disk) = committed.files
     /\ (last.op = "index" /\ last.loaded) => last.fresh) => I1

\* C6: after a fresh engine has built and saved an index, a fresh engine that
\* loads the artifacts holds the same documents, term_occurrences and
\* term_documents.
SaveLoadRoundTrip ==
    (last.op = "index" /\ last.walked /\ last.fresh /\ last.saved /\ running) =>
        LET r == loadFromFiles(FreshEngine, disk)
        IN  /\ ~r.thrown
            /\ r.E.documents = documents
            /\ r.E.term_occurrences = term_occurrences
            /\ r.E.term_documents = term_documents

\* C7 (I3): after every indexCorpusDirectory call that returns, documents and
\* term_occurrences have the same keys.
I3 == (last.op = "index" /\ running) => DOMAIN documents = DOMAIN term_occurrences

\* C8: after an indexing run over a corpus without .txt files the index is
\* empty and every search returns nothing, whatever the engine held before.
EmptyCorpusEmptyIndex ==
    (last.op = "index" /\ last.walked /\ last.txt = {} /\ running) =>
        /\ getIndexSize(Engine) = 0
        /\ \A q \in Queries, a \in BOOLEAN : search(Engine, q, a).results = <<>>

\* C9: a run that walks the corpus to its end writes the artifacts exactly
\* when it indexed a document; a run that indexed none leaves the index empty
\* and the three files as they were.
WalkSavesIffIndexed ==
    [][(IsIndexStep /\ last'.walked /\ last'.stop = NoStop) =>
          /\ last'.saved <=> (last'.txt # {})
          /\ (last'.txt = {}) => (disk' = disk /\ documents' = EmptyMap)]_vars

\* C10: indexCorpusDirectory(true) loads only artifacts that are the three
\* files of one completed save; what an interrupted save left is absent to it.
LoadsOneSave ==
    (last.op = "index" /\ last.loaded) =>
        (committed.saved /\ Files(disk) = committed.files)

\* C11: a load that returns leaves an index in which I1, I2 and I3 hold; the
\* artifacts of an index in which they do not hold make the load fail.
I2 ==
    \A d \in DOMAIN term_occurrences : \A t \in DOMAIN term_occurrences[d] :
        \A i \in 1..Len(term_occurrences[d][t]) :
            /\ term_occurrences[d][t][i].stemmed = t
            /\ term_occurrences[d][t][i].document_id = d

LoadChecksInvariants ==
    (last.op = "index" /\ last.loaded /\ last.fresh /\ ~last.thrown) =>
        /\ I1
        /\ I2
        /\ DOMAIN documents = DOMAIN term_occurrences
        /\ KnownIds \subseteq DOMAIN documents

\* C12: a run that walks a corpus holding a text file that cannot be opened
\* leaves nothing of the run in the engine it started on: no document ID, no
\* documents entry and no term_occurrences entry, and no document for the file.
UnreadableEndsRun ==
    (/\ last.op = "index" /\ last.walked /\ last.fresh
     /\ \E p \in last.txt : ~canOpen(p)) =>
        /\ documents = EmptyMap
        /\ term_occurrences = EmptyMap
        /\ doc_id_tracker = -1

\* C13: the constructor fails on a path that refers to a regular file and
\* does not fail on a path that refers to a directory, with or without a
\* separator at its end.
ConstructorChecksFile ==
    last.op = "new" =>
        /\ (last.refers = "file") => last.thrown
        /\ (last.refers = "directory") => ~last.thrown

\* C14: the score of every result is computed with N the number of indexed
\* documents and df the number of documents that contain the stem.
IdfUsesIndexSize ==
    last.op = "search" =>
        \A i \in 1..Len(AllResults) :
            /\ AllResults[i].relevance_score.total_docs = getIndexSize(Engine)
            /\ AllResults[i].relevance_score.df =
                   Cardinality(Get(term_documents, AllResults[i].query_term.stemmed, {}))

\* the terms that occur in document d
TermsOf(d) ==
    {t \in DOMAIN Get(term_occurrences, d, EmptyMap) : term_occurrences[d][t] # <<>>}

\* C15: the score of every result is computed with the number of stored
\* occurrences of the stem in the document over the number of distinct terms
\* that occur in the document.
TfUsesDistinctTerms ==
    last.op = "search" =>
        \A i \in 1..Len(AllResults) :
            /\ AllResults[i].relevance_score.term_freq = Len(AllResults[i].occurrences)
            /\ AllResults[i].relevance_score.total_terms =
                   Cardinality(TermsOf(AllResults[i].document_id))

\* C16: every result carries a non-empty list of occurrences, each of the
\* result's stem in the result's document.
ResultHasOccurrences ==
    last.op = "search" =>
        \A i \in 1..Len(AllResults) :
            /\ AllResults[i].occurrences # <<>>
            /\ AllResults[i].occurrences =
                   term_occurrences[AllResults[i].document_id]
                                   [AllResults[i].query_term.stemmed]
            /\ \A k \in 1..Len(AllResults[i].occurrences) :
                   /\ AllResults[i].occurrences[k].stemmed =
                          AllResults[i].query_term.stemmed
                   /\ AllResults[i].occurrences[k].document_id =
                          AllResults[i].document_id

\* the stems of the lines the engine tokenizes depend on no undefined read
TokensAreDefined ==
    \A text \in Lines, u \in Undefined : stemLine(text, u) = Tokens[text]

\* the sub-words of a line: its longest runs of characters that are neither
\* white space nor punctuation, from position i on, run being the one begun
RECURSIVE SubWordsFrom(_, _, _)
SubWordsFrom(text, i, run) ==
    LET c == SubSeq(text, i, i)
        ended == IF run = "" THEN <<>> ELSE <<run>>
    IN  IF i > Len(text) THEN ended
        ELSE IF c \in PUNCTUATION \cup WHITESPACE
             THEN ended \o SubWordsFrom(text, i + 1, "")
        ELSE SubWordsFrom(text, i + 1, run \o c)

SubWords(text) == SubWordsFrom(text, 1, "")

LowercasedIsStemmable(word) ==
    /\ Len(stringToLower(word)) >= WORD_STEM_THRESHOLD
    /\ stringToLower(word) \notin STOPWORDS

Originals == [i \in 1..Len(line_stems) |-> line_stems[i].original]

\* C17: the stems stemLine returns for a line are those of its sub-words whose
\* lowercased form has at least 3 characters and is no stop word, in the order
\* of the line; "The" and "AND" give no stem.
TokenizerFiltersLowercased ==
    (last.op = "stemLine" /\ stemmer_data # Fault) =>
        Originals = SelectSeq(SubWords(last.text), LowercasedIsStemmable)

\* C18: every stem stemLine returns for a line carries the column of its word:
\* the characters of the line from index on, as many as original has, are
\* original.
StemIndexIsColumn ==
    last.op = "stemLine" =>
        \A i \in 1..Len(line_stems) :
            SubSeq(last.text, line_stems[i].index + 1,
                   line_stems[i].index + Len(line_stems[i].original))
                = line_stems[i].original

\* a line that begins with two spaces and a punctuation character has given
\* the stem of the word after them, at column 3
StemAfterBlanks ==
    /\ last.op = "stemLine"
    /\ Len(last.text) > 3
    /\ SubSeq(last.text, 1, 3) = "  #"
    /\ Len(line_stems) = 1
    /\ line_stems[1].index = 3

IsStemAgain ==
    /\ last.op = "stem"
    /\ last'.op = "stem"
    /\ last'.text = last.stemmed
    /\ stemmer_data' # Fault

\* C19 as stated: stem applied to the word stem returned returns that word.
StemIsIdempotent == [][IsStemAgain => last'.stemmed = last.stemmed]_vars

\* C19: stem applied to the word stem returned returns a word that is not
\* longer; it can be shorter (cease, ceas, cea).
StemAgainNeverLonger ==
    [][IsStemAgain => Len(last'.stemmed) <= Len(last.stemmed)]_vars

\* stem has been applied to ceas, the stem of cease, and has returned cea
StemmedTwiceShorter ==
    /\ last.op = "stem"
    /\ last.text = "ceas"
    /\ last.stemmed = "cea"

\* the word ends consonant, vowel, consonant, the last not w, x or y
EndsCVC(word) ==
    /\ Len(word) >= 3
    /\ isConsonant(word, Len(word) - 3)
    /\ ~isConsonant(word, Len(word) - 2)
    /\ isConsonant(word, Len(word) - 1)
    /\ at(word, Len(word) - 1) \notin {"w", "x", "y"}

FinalERemoved(word) ==
    LET rest == SubSeq(word, 1, Len(word) - 1)
        m == getm(rest, 0).res
    IN  IF stringEndsWith(word, "e") /\ (m > 1 \/ (m = 1 /\ ~EndsCVC(rest)))
        THEN rest ELSE word

\* C20: step 5a leaves in data the word without its final e when the word ends
\* in e and the rest has m > 1, or m = 1 and does not end consonant, vowel,
\* consonant; otherwise it leaves the word as it was.
Step5aRemovesFinalE ==
    [][last'.op = "step5a" => stemmer_data' = FinalERemoved(stemmer_data)]_vars

\* the measure m of a word: the number of vowel-consonant sequences in it
Measure(word) == getm(word, 0).res

\* some letter of the word is a vowel (a, e, i, o, u, or y after a consonant)
HasVowel(word) == \E i \in 1..Len(word) : ~isConsonant(word, i - 1)

\* the word ends in a double consonant
EndsDoubleConsonant(word) ==
    /\ Len(word) >= 2
    /\ isConsonant(word, Len(word) - 1)
    /\ at(word, Len(word) - 1) = at(word, Len(word) - 2)

\* the word without its last n characters
Without(word, n) == SubSeq(word, 1, Len(word) - n)

\* the cleanup of step 1b once ed or ing has been removed
Step1bCleanup(word) ==
    IF \E s \in {"at", "bl", "iz"} : stringEndsWith(word, s) THEN word \o "e"
    ELSE IF EndsDoubleConsonant(word) /\ at(word, Len(word) - 1) \notin {"l", "s", "z"}
    THEN Without(word, 1)
    ELSE IF Measure(word) = 1 /\ EndsCVC(word) THEN word \o "e"
    ELSE word

\* what the rule of step 1b makes of a word
Step1bRule(word) ==
    IF stringEndsWith(word, "eed")
    THEN IF Measure(Without(word, 3)) > 0 THEN Without(word, 1) ELSE word
    ELSE IF stringEndsWith(word, "ing") /\ HasVowel(Without(word, 3))
    THEN Step1bCleanup(Without(word, 3))
    ELSE IF stringEndsWith(word, "ed") /\ HasVowel(Without(word, 2))
    THEN Step1bCleanup(Without(word, 2))
    ELSE word

\* C21: step 1b turns eed into ee only when m > 0 before it, removes ed or ing
\* only when the part before it contains a vowel and then applies the cleanup
\* (e after at, bl, iz; else the last letter of a double consonant other than
\* l, s, z dropped; else e added when m = 1 and the word ends consonant,
\* vowel, consonant), and leaves every other word unchanged.
Step1bFollowsRule ==
    [][last'.op = "step1b" => stemmer_data' = Step1bRule(stemmer_data)]_vars

\* the rows of a suffix table whose suffix the word ends with
MatchingRows(arr, word) == {i \in 1..Len(arr) : stringEndsWith(word, arr[i][1])}

\* the first matching row of the table decides alone: its replacement is made
\* when the part before its suffix has a measure above m, else nothing is done
FirstMatchOnly(arr, word, m) ==
    IF MatchingRows(arr, word) = {} THEN word
    ELSE LET row == arr[Min(MatchingRows(arr, word))]
         IN  IF Measure(Without(word, Len(row[1]))) > m
             THEN Without(word, Len(row[1])) \o row[2]
             ELSE word

\* C22: in steps 2, 3 and 4 only the first rule of the table whose suffix
\* matches can fire; when its measure condition fails the step leaves the word
\* unchanged, whatever later rows match (step 4 on a word in ion has its own
\* rule and is left out).
FirstMatchingRuleOnly ==
    [][/\ last'.op = "step2" /\ stemmer_data' # Fault
          => stemmer_data' = FirstMatchOnly(STEP_2_SUFFIXES, stemmer_data, 0)
       /\ last'.op = "step3"
          => stemmer_data' = FirstMatchOnly(STEP_3_SUFFIXES, stemmer_data, 0)
       /\ last'.op = "step4" /\ ~stringEndsWith(stemmer_data, "ion")
          => stemmer_data' = FirstMatchOnly(STEP_4_SUFFIXES, stemmer_data, 1)]_vars

Helpers == {"getm", "containsVowel", "doubleConsonantSuffix", "endsCVC"}

\* C25: getm, containsVowel, doubleConsonantSuffix and endsCVC leave the
\* working string as it was before the call, for every word and every
\* suffix_length from 0 to the length of the word.
HelpersRestoreData ==
    [][last'.op \in Helpers => stemmer_data' = stemmer_data]_vars

\* the scan of a whole suffix table in order, as processSuffixArray makes it
\* from row 0 to the last row
WholeTable(arr, word, m) == processSuffixArray(word, arr, 0, Len(arr), m, Fault)

\* C26: the lookup by the penultimate (steps 2 and 4) or last (step 3)
\* character only speeds the steps up: each step leaves what a scan of its
\* whole suffix table in order leaves (step 4 on a word in ion has its own rule
\* and is left out).
LookupIsAcceleration ==
    [][/\ last'.op = "step2"
          => stemmer_data' = WholeTable(STEP_2_SUFFIXES, stemmer_data, 0)
       /\ last'.op = "step3"
          => stemmer_data' = WholeTable(STEP_3_SUFFIXES, stemmer_data, 0)
       /\ last'.op = "step4" /\ ~stringEndsWith(stemmer_data, "ion")
          => stemmer_data' = WholeTable(STEP_4_SUFFIXES, stemmer_data, 1)]_vars

\* o1 comes before o2 in the order of (line, index)
Before(o1, o2) == o1.line < o2.line \/ (o1.line = o2.line /\ o1.index < o2.index)

\* C23: after any sequence of builds, loads and reindexes on one engine, every
\* list term_occurrences[d][t] is strictly increasing in (line, index).
OccurrencesSorted ==
    \A d \in DOMAIN term_occurrences : \A t \in DOMAIN term_occurrences[d] :
        \A i \in 1..(Len(term_occurrences[d][t]) - 1) :
            Before(term_occurrences[d][t][i], term_occurrences[d][t][i + 1])

\* C27: a document ID is never reused on one engine: the IDs a walk of the
\* corpus assigns, doc_id_tracker + 1 up to the new doc_id_tracker, are IDs
\* the engine did not know before, in any sequence of loads and builds.
IdsNeverReused ==
    [][(IsIndexStep /\ last'.walked) =>
          \A d \in (doc_id_tracker + 1)..doc_id_tracker' :
              d \notin DOMAIN documents \cup DOMAIN term_occurrences \cup KnownIds]_vars

\* the last call on this engine was its first indexCorpusDirectory call, and it
\* returned after it had loaded the artifacts or built and saved them
FirstCallReturned ==
    /\ last.op = "index"
    /\ last.fresh
    /\ last.loaded \/ last.saved
    /\ running

\* C28: indexCorpusDirectory(true) called a second time on one engine, the
\* three artifacts being there, leaves documents, term_occurrences and
\* term_documents as they were after the first call.
LoadIsIdempotent ==
    [][(FirstCallReturned /\ IsIndexStep /\ last'.loaded) => index' = index]_vars

\* C29: every document_id carried by a result of a search is a key of
\* documents, so that getDocumentPath returns its path, after any sequence of
\* builds, reindexing runs and restarts with a load of the artifacts written
\* last, the saves having run to their end.
ResultDocumentsKnown ==
    (last.op = "index" /\ running /\ Files(disk) = committed.files) =>
        \A query \in Queries, search_strategy_and \in BOOLEAN :
            \A result \in Range(Flatten(search(Engine, query, search_strategy_and).results)) :
                result.document_id \in DOMAIN documents

\* C24: in every frame in which a StateSearch runs its search, indexes_loaded
\* is set, whatever events were polled in the frame and in whatever order.
SearchOnlyWhenLoaded ==
    (last.op = "draw" /\ last.fetched) => last.indexes_loaded

CursorInValue == 0 <= searchbar.cursor_pos /\ searchbar.cursor_pos <= Len(searchbar.value)

\* the event handled in this step is a backspace with the cursor at 0, a Left
\* key with the cursor at 0, or a Right key with the cursor at the end
IsKeyAtEnd ==
    /\ last'.op = "event"
    /\ frame'.polled = frame.polled + 1
    /\ \/ /\ last'.event = [type |-> "TextEntered", unicode |-> 8]
          /\ searchbar.cursor_pos = 0
       \/ /\ last'.event = [type |-> "KeyPressed", code |-> "Left"]
          /\ searchbar.cursor_pos = 0
       \/ /\ last'.event = [type |-> "KeyPressed", code |-> "Right"]
          /\ searchbar.cursor_pos = Len(searchbar.value)

\* C30: whatever keys are typed (characters, backspace, paste, Left, Right) on
\* the bar of StateHome or of a StateSearch constructed with a query,
\* 0 <= cursor_pos <= length of value; a backspace or a Left at 0 and a Right
\* at the end leave the bar as it is.
CursorStaysInValue ==
    []CursorInValue /\ [][IsKeyAtEnd => searchbar' = searchbar]_vars

\* the bar of a StateSearch constructed with "rat" after Left, Left and a
\* backspace: "at" with the cursor at 0
BackspaceInQuery ==
    /\ state.name = "search"
    /\ state.query = "rat"
    /\ last.op = "event"
    /\ last.event = [type |-> "TextEntered", unicode |-> 8]
    /\ searchbar.value = "at"
    /\ searchbar.cursor_pos = 0

====
